---- MODULE Spec2Model ----
(***************************************************************************)
(* Model of browser_use/agent/memory_summarizer/service.py: the periodic   *)
(* compaction of the Message Manager's history by MemorySummarizer.        *)
(*                                                                         *)
(* The history is the pair (messages, current_tokens) held by the Message  *)
(* Manager; summarize_memories(current_step) partitions it, asks the        *)
(* summarization backend (llm.invoke) for a summary and rewrites it.        *)
(* In Spec one call of summarize_memories is one step of the model: the     *)
(* code is synchronous and is invoked by the host loop between steps.       *)
(* SpecSteps takes the same call line by line, with another writer that     *)
(* appends to the history during the backend round trip.                    *)
(***************************************************************************)
EXTENDS Integers, Sequences, FiniteSets, TLC

(* ---- bounds of the model ------------------------------------------------ *)
MaxMsgs == 4      \* the Message Manager stops appending at this length
MaxStep == 3      \* current_step ranges over 0..MaxStep
MaxEvery == 2     \* summarize_every_n_steps ranges over 1..MaxEvery
MaxInit == 2      \* number of init-tagged entries at construction, 1..MaxInit
MaxInterleaved == 1  \* appends by another writer during backend calls, per run

VARIABLES
    history,   \* message_manager.state.history: [messages, current_tokens]
    settings,  \* MemorySummarizerSettings: [enable_summarization, summarize_every_n_steps]
    pre,       \* observer: the history at the start of the last call
    call,      \* observer: what the last call did
    run,       \* observer: what the calls so far did
    pc,        \* the line the call in progress has reached, "idle" between calls
    local      \* the local variables of the call in progress

vars == <<history, settings, pre, call, run, pc, local>>

(* ---- messages ----------------------------------------------------------- *)
HumanMessage(content) == [role |-> "human", content |-> content]

SystemMessage(content) == [role |-> "system", content |-> content]

MessageMetadata(tokens, message_type) == [tokens |-> tokens, message_type |-> message_type]

ManagedMessage(message, metadata) == [message |-> message, metadata |-> metadata]

\* Token cost the Message Manager attributes to a message: a function of the
\* message's text alone, so that equal texts cost the same everywhere.
count_tokens(message) == Len(message.content)

\* Messages the Message Manager appends for ordinary steps.
StepMessages ==
    { [role |-> "ai", content |-> ""],
      [role |-> "ai", content |-> "act"],
      HumanMessage("state") }

\* The i-th init-tagged entry the Message Manager creates at construction:
\* the system prompt, then the task and example messages.
InitMessage(i) ==
    IF i = 1 THEN SystemMessage("sys")
    ELSE IF i % 2 = 0 THEN HumanMessage("task")
    ELSE [role |-> "ai", content |-> "example"]

InitEntry(i) ==
    ManagedMessage(InitMessage(i), MessageMetadata(count_tokens(InitMessage(i)), "init"))

(* ---- the summarization backend ------------------------------------------ *)
\* What llm.invoke can do: raise, return an object without .content, or
\* return a response whose content is a str, None or a list.
SummaryTexts == {"", "S", "SUMMARY"}

Contents ==
    { [kind |-> "str", val |-> s] : s \in SummaryTexts }
      \cup { [kind |-> "none", val |-> ""], [kind |-> "list", val |-> ""] }

BackendOutcomes ==
    { [result |-> "raise", content |-> [kind |-> "none", val |-> ""]],
      [result |-> "no_content", content |-> [kind |-> "none", val |-> ""]] }
      \cup { [result |-> "response", content |-> c] : c \in Contents }

\* Python's str(): a str is itself, None is the text 'None', a list is its
\* bracketed repr (val holds the repr of the items).
PyStr(content) ==
    CASE content.kind = "str" -> content.val
      [] content.kind = "none" -> "None"
      [] content.kind = "list" -> "[" \o content.val \o "]"

(* ---- partitioning (summarize_memories, lines 63-78) ---------------------- *)
\* variant: only init entries are kept out of the summary
IsRetained_init_only(msg) == msg.metadata.message_type \in {"init"}

\* line 71: init and memory entries are not processed
IsRetained(msg) == msg.metadata.message_type \in {"init", "memory"}

\* lines 68-72: the entries carried forward, in history order
new_messages(all_messages) == SelectSeq(all_messages, IsRetained)

\* lines 67-74: the entries to summarize, in history order
messages_to_process(all_messages) ==
    SelectSeq(all_messages, LAMBDA msg : ~IsRetained(msg))

\* lines 54-59: the call goes on only if enabled and on cadence
Triggered(current_step) ==
    /\ settings.enable_summarization
    /\ current_step % settings.summarize_every_n_steps = 0

\* variant: a single entry is summarized too
NotEnough_none_only(to_process) == Len(to_process) < 1

\* line 76: one entry or none is not worth a summary
NotEnough(to_process) == Len(to_process) <= 1

(* ---- _create_summary (lines 106-149) ------------------------------------- *)
NoSummary == [kind |-> "none", text |-> ""]

\* lines 118-143: the directive; its window is current_step - 10 .. current_step
system_prompt(current_step) ==
    [role |-> "system", content |-> "directive",
     first_action |-> current_step - 10,
     last_action |-> current_step,
     every |-> settings.summarize_every_n_steps]

\* line 144
human_prompt ==
    HumanMessage("Generate a summary of the above browser agent execution history.")

\* line 145: the argument of llm.invoke
Request(messages, current_step) ==
    <<system_prompt(current_step)>> \o messages \o <<human_prompt>>

\* lines 145-146: the body of the try
InvokeAndRead(backend) ==
    IF backend.result = "response"
    THEN [kind |-> "text", text |-> PyStr(backend.content)]
    ELSE [kind |-> "raise", text |-> ""]

\* variant: no except clause, the exception of the body leaves the function
create_summary_no_except(backend) == InvokeAndRead(backend)

\* lines 116-149: any Exception of the body becomes None
create_summary(backend) ==
    IF InvokeAndRead(backend).kind = "raise" THEN NoSummary ELSE InvokeAndRead(backend)

\* line 83: None and the empty string are falsy
IsFalsy(summary) == summary.kind = "none" \/ summary.text = ""

(* ---- the rewrite (lines 87-101) ------------------------------------------ *)
RECURSIVE SumTokens(_)
SumTokens(msgs) ==
    IF msgs = <<>> THEN 0 ELSE Head(msgs).metadata.tokens + SumTokens(Tail(msgs))

\* variant: counts the replaced entries instead of their tokens
removed_tokens_count(to_process) == Len(to_process)

\* line 93
removed_tokens(to_process) == SumTokens(to_process)

\* variant: the summary entry is not tagged memory
summary_entry_untagged(text) ==
    ManagedMessage(HumanMessage(text),
                   MessageMetadata(count_tokens(HumanMessage(text)), "step"))

\* lines 88-90, 96
summary_entry(text) ==
    ManagedMessage(HumanMessage(text),
                   MessageMetadata(count_tokens(HumanMessage(text)), "memory"))

\* lines 95-101
\* variant: the summary is appended to the whole history
Rewrite_keep_all(h, text) ==
    [messages |-> Append(h.messages, summary_entry(text)),
     current_tokens |-> (h.current_tokens - removed_tokens(messages_to_process(h.messages)))
                          + summary_entry(text).metadata.tokens]

\* variant: the summary is put in front of the retained entries
Rewrite_summary_first(h, text) ==
    [messages |-> <<summary_entry(text)>> \o new_messages(h.messages),
     current_tokens |-> (h.current_tokens - removed_tokens(messages_to_process(h.messages)))
                          + summary_entry(text).metadata.tokens]

\* variant: line 101 is missing, the summary's tokens are not counted
Rewrite_no_add(h, text) ==
    [messages |-> Append(new_messages(h.messages), summary_entry(text)),
     current_tokens |-> h.current_tokens - removed_tokens(messages_to_process(h.messages))]

Rewrite(h, text) ==
    [messages |-> Append(new_messages(h.messages), summary_entry(text)),
     current_tokens |-> (h.current_tokens - removed_tokens(messages_to_process(h.messages)))
                          + summary_entry(text).metadata.tokens]

(* ---- summarize_memories (lines 47-104) ----------------------------------- *)
\* The path one call takes.
Outcome(h, current_step, backend) ==
    IF ~settings.enable_summarization THEN "disabled"
    ELSE IF ~Triggered(current_step) THEN "off_cadence"
    ELSE IF NotEnough(messages_to_process(h.messages)) THEN "not_enough"
    ELSE IF create_summary(backend).kind = "raise" THEN "raised"
    ELSE IF IsFalsy(create_summary(backend)) THEN "no_summary"
    ELSE "rewritten"

\* variant: a failed request is sent a second time
BackendCalls_retry(h, current_step, backend) ==
    IF Outcome(h, current_step, backend) \in {"disabled", "off_cadence", "not_enough"}
    THEN <<>>
    ELSE IF Outcome(h, current_step, backend) = "no_summary"
    THEN << Request([i \in 1..Len(messages_to_process(h.messages)) |->
                        messages_to_process(h.messages)[i].message], current_step),
            Request([i \in 1..Len(messages_to_process(h.messages)) |->
                        messages_to_process(h.messages)[i].message], current_step) >>
    ELSE << Request([i \in 1..Len(messages_to_process(h.messages)) |->
                        messages_to_process(h.messages)[i].message], current_step) >>

\* variant: the whole history is sent, not only the entries to summarize
BackendCalls_all_messages(h, current_step, backend) ==
    IF Outcome(h, current_step, backend) \in {"disabled", "off_cadence", "not_enough"}
    THEN <<>>
    ELSE << Request([i \in 1..Len(h.messages) |-> h.messages[i].message], current_step) >>

\* The requests the call sends to the backend, in order (line 81 -> line 145).
BackendCalls(h, current_step, backend) ==
    IF Outcome(h, current_step, backend) \in {"disabled", "off_cadence", "not_enough"}
    THEN <<>>
    ELSE << Request([i \in 1..Len(messages_to_process(h.messages)) |->
                        messages_to_process(h.messages)[i].message], current_step) >>

\* The locals of a call that is not in progress.
NoLocal ==
    [current_step |-> 0, new_messages |-> <<>>, messages_to_process |-> <<>>,
     summary |-> "", summary_tokens |-> 0, removed_tokens |-> 0]

\* The observer of the run after a call that took the path outcome: one
\* more compaction if the call rewrote the history.
RunAfter(outcome) ==
    [run EXCEPT !.compactions = IF outcome = "rewritten" THEN @ + 1 ELSE @]

summarize_memories(current_step, backend) ==
    /\ pc = "idle"
    /\ history' = IF Outcome(history, current_step, backend) = "rewritten"
                  THEN Rewrite(history, create_summary(backend).text)
                  ELSE history
    /\ pre' = history
    /\ call' = [op |-> "summarize",
                step |-> current_step,
                backend |-> backend,
                outcome |-> Outcome(history, current_step, backend),
                requests |-> BackendCalls(history, current_step, backend),
                raised |-> Outcome(history, current_step, backend) = "raised",
                interleaved |-> <<>>]
    /\ run' = RunAfter(Outcome(history, current_step, backend))
    /\ UNCHANGED <<settings, pc, local>>

(* ---- the Message Manager's append ---------------------------------------- *)
add_message(message) ==
    /\ pc = "idle"
    /\ Len(history.messages) < MaxMsgs
    /\ history' = [messages |-> Append(history.messages,
                        ManagedMessage(message, MessageMetadata(count_tokens(message), "step"))),
                   current_tokens |-> history.current_tokens + count_tokens(message)]
    /\ pre' = history
    /\ call' = [op |-> "add", step |-> 0,
                backend |-> [result |-> "raise", content |-> [kind |-> "none", val |-> ""]],
                outcome |-> "added", requests |-> <<>>, raised |-> FALSE, interleaved |-> <<>>]
    /\ UNCHANGED <<settings, run, pc, local>>

(* ---- summarize_memories line by line ------------------------------------- *)
\* The same call taken apart at the backend round trip and at the three
\* assignments of the rewrite, for what can be seen or done in between.
NoBackend == [result |-> "raise", content |-> [kind |-> "none", val |-> ""]]

\* variant: line 101 is missing, the call returns after line 100
NextLine_no_101(line) ==
    CASE line = "count" -> "assign_messages"
      [] line = "assign_messages" -> "sub_tokens"
      [] line = "sub_tokens" -> "idle"
      [] line = "add_tokens" -> "idle"

\* lines 88-101 in program order; the call returns after line 101
NextLine(line) ==
    CASE line = "count" -> "assign_messages"
      [] line = "assign_messages" -> "sub_tokens"
      [] line = "sub_tokens" -> "add_tokens"
      [] line = "add_tokens" -> "idle"

\* line 99
Line99(h, l) == [h EXCEPT !.messages = l.new_messages]

\* variant: += where line 100 has -=
Line100_plus(h, l) == [h EXCEPT !.current_tokens = @ + l.removed_tokens]

\* line 100
Line100(h, l) == [h EXCEPT !.current_tokens = @ - l.removed_tokens]

\* line 101
Line101(h, l) == [h EXCEPT !.current_tokens = @ + l.summary_tokens]

\* What the observers record when the rewrite moves from line to the next:
\* the call is over, as a rewrite, once the next line is the return.
CallAfterLine(line) ==
    IF NextLine(line) = "idle" THEN [call EXCEPT !.outcome = "rewritten"] ELSE call

RunAfterLine(line) ==
    IF NextLine(line) = "idle" THEN RunAfter("rewritten") ELSE run

\* The locals are gone once the call has returned.
LocalAfterLine(line) ==
    IF NextLine(line) = "idle" THEN NoLocal ELSE local

\* lines 54-78: the early returns and the partition
Begin(current_step) ==
    /\ pc = "idle"
    /\ pre' = history
    /\ call' = [op |-> "summarize", step |-> current_step, backend |-> NoBackend,
                outcome |-> IF Outcome(history, current_step, NoBackend)
                                  \in {"disabled", "off_cadence", "not_enough"}
                            THEN Outcome(history, current_step, NoBackend)
                            ELSE "running",
                requests |-> <<>>, raised |-> FALSE, interleaved |-> <<>>]
    /\ IF Outcome(history, current_step, NoBackend)
             \in {"disabled", "off_cadence", "not_enough"}
       THEN pc' = "idle" /\ local' = NoLocal
       ELSE /\ pc' = "invoke"
            /\ local' = [NoLocal EXCEPT
                            !.current_step = current_step,
                            !.new_messages = new_messages(history.messages),
                            !.messages_to_process = messages_to_process(history.messages)]
    /\ UNCHANGED <<history, settings, run>>

\* lines 80-85: the backend round trip and the test of its result
Invoke(backend) ==
    /\ pc = "invoke"
    /\ call' = [call EXCEPT
                  !.backend = backend,
                  !.requests = << Request([i \in 1..Len(local.messages_to_process) |->
                                              local.messages_to_process[i].message],
                                          local.current_step) >>,
                  !.outcome = IF create_summary(backend).kind = "raise" THEN "raised"
                              ELSE IF IsFalsy(create_summary(backend)) THEN "no_summary"
                              ELSE "running",
                  !.raised = create_summary(backend).kind = "raise"]
    /\ IF create_summary(backend).kind = "raise" \/ IsFalsy(create_summary(backend))
       THEN pc' = "idle" /\ local' = NoLocal
       ELSE pc' = "count" /\ local' = [local EXCEPT !.summary = create_summary(backend).text]
    /\ UNCHANGED <<history, settings, pre, run>>

\* lines 87-96: the summary entry and the tokens removed; the Message
\* Manager's token counting (line 89) may raise, and nothing catches it.
Count(counted) ==
    /\ pc = "count"
    /\ IF counted
       THEN /\ pc' = NextLine("count")
            /\ local' = [local EXCEPT
                            !.summary_tokens = summary_entry(local.summary).metadata.tokens,
                            !.removed_tokens = removed_tokens(local.messages_to_process),
                            !.new_messages = Append(@, summary_entry(local.summary))]
            /\ call' = call
       ELSE /\ pc' = "idle"
            /\ local' = NoLocal
            /\ call' = [call EXCEPT !.outcome = "raised", !.raised = TRUE]
    /\ UNCHANGED <<history, settings, pre, run>>

\* line 99: the list the history held is replaced; what another writer
\* appended to it since the partition goes with it.
AssignMessages ==
    /\ pc = "assign_messages"
    /\ history' = Line99(history, local)
    /\ pc' = NextLine("assign_messages")
    /\ call' = CallAfterLine("assign_messages")
    /\ run' = [RunAfterLine("assign_messages") EXCEPT
                  !.lost_tokens = @ + SumTokens(call.interleaved)]
    /\ local' = LocalAfterLine(pc)
    /\ UNCHANGED <<settings, pre>>

\* line 100
SubTokens ==
    /\ pc = "sub_tokens"
    /\ history' = Line100(history, local)
    /\ pc' = NextLine("sub_tokens")
    /\ call' = CallAfterLine("sub_tokens")
    /\ run' = RunAfterLine("sub_tokens")
    /\ local' = LocalAfterLine(pc)
    /\ UNCHANGED <<settings, pre>>

\* line 101
AddTokens ==
    /\ pc = "add_tokens"
    /\ history' = Line101(history, local)
    /\ pc' = NextLine("add_tokens")
    /\ call' = CallAfterLine("add_tokens")
    /\ run' = RunAfterLine("add_tokens")
    /\ local' = LocalAfterLine(pc)
    /\ UNCHANGED <<settings, pre>>

\* Another writer appends an entry while the summarizer waits for the
\* backend (between the partition and the rewrite).
concurrent_add(message) ==
    /\ pc = "invoke"
    /\ Len(history.messages) < MaxMsgs
    /\ run.interleaved < MaxInterleaved
    /\ history' = [messages |-> Append(history.messages,
                        ManagedMessage(message, MessageMetadata(count_tokens(message), "step"))),
                   current_tokens |-> history.current_tokens + count_tokens(message)]
    /\ call' = [call EXCEPT !.interleaved = Append(@,
                        ManagedMessage(message, MessageMetadata(count_tokens(message), "step")))]
    /\ run' = [run EXCEPT !.interleaved = @ + 1]
    /\ UNCHANGED <<settings, pre, pc, local>>

(* ---- specification -------------------------------------------------------- *)
InitHistory(k) ==
    [messages |-> [i \in 1..k |-> InitEntry(i)],
     current_tokens |-> SumTokens([i \in 1..k |-> InitEntry(i)])]

Init ==
    /\ \E k \in 1..MaxInit : history = InitHistory(k)
    /\ settings \in [enable_summarization : BOOLEAN,
                     summarize_every_n_steps : 1..MaxEvery]
    /\ pre = history
    /\ call = [op |-> "none", step |-> 0,
               backend |-> [result |-> "raise", content |-> [kind |-> "none", val |-> ""]],
               outcome |-> "none", requests |-> <<>>, raised |-> FALSE, interleaved |-> <<>>]
    /\ run = [compactions |-> 0, interleaved |-> 0, lost_tokens |-> 0]
    /\ pc = "idle"
    /\ local = NoLocal

AddStep == \E m \in StepMessages : add_message(m)

Summarize ==
    \E current_step \in 0..MaxStep, backend \in BackendOutcomes :
        summarize_memories(current_step, backend)

Next == AddStep \/ Summarize

Spec == Init /\ [][Next]_vars

\* The host loop calls summarize_memories after every step it completes and
\* the Message Manager records every step: neither is postponed forever.
FairSpec == Spec /\ WF_vars(AddStep) /\ WF_vars(Summarize)

\* The call line by line, with another writer on the same history.
BeginCall == \E current_step \in 0..MaxStep : Begin(current_step)

BackendReturns == \E backend \in BackendOutcomes : Invoke(backend)

CountTokens == \E counted \in BOOLEAN : Count(counted)

ConcurrentAdd == \E m \in StepMessages : concurrent_add(m)

NextSteps ==
    \/ AddStep
    \/ ConcurrentAdd
    \/ BeginCall
    \/ BackendReturns
    \/ CountTokens
    \/ AssignMessages
    \/ SubTokens
    \/ AddTokens

SpecSteps == Init /\ [][NextSteps]_vars

TypeOK ==
    /\ history.current_tokens \in Int
    /\ Len(history.messages) <= MaxMsgs
    /\ \A i \in 1..Len(history.messages) :
          history.messages[i].metadata.message_type \in {"init", "memory", "step"}

(* ---- vocabulary of the properties ---------------------------------------- *)
\* The entries of msgs whose tag is in tags, in order.
Tagged(msgs, tags) == SelectSeq(msgs, LAMBDA e : e.metadata.message_type \in tags)

\* The entries of msgs whose tag is not in tags, in order.
NotTagged(msgs, tags) == SelectSeq(msgs, LAMBDA e : e.metadata.message_type \notin tags)

\* The last call was summarize_memories, enabled and on cadence, with at
\* least two entries to summarize: it reached the backend.
Attempted ==
    /\ call.op = "summarize"
    /\ settings.enable_summarization
    /\ call.step % settings.summarize_every_n_steps = 0
    /\ Len(NotTagged(pre.messages, {"init", "memory"})) >= 2

\* The backend returned a response whose content is a non-empty str.
ReturnedText ==
    /\ call.backend.result = "response"
    /\ call.backend.content.kind = "str"
    /\ call.backend.content.val # ""

(* ---- C1 ------------------------------------------------------------------- *)
\* C1: at every call boundary current_tokens equals the sum of the tokens of
\* the entries of the history, and after a rewrite the incremental update
\* (counter before, minus the tokens of the replaced entries, plus the tokens
\* of the summary entry) equals that sum too.
AccountingInvariant ==
    /\ history.current_tokens = SumTokens(history.messages)
    /\ call.outcome = "rewritten" =>
          (pre.current_tokens - SumTokens(NotTagged(pre.messages, {"init", "memory"})))
             + history.messages[Len(history.messages)].metadata.tokens
          = SumTokens(history.messages)

\* A rewrite that changed the counter.
AccountingWitness ==
    /\ call.outcome = "rewritten"
    /\ history.current_tokens # pre.current_tokens
    /\ SumTokens(NotTagged(pre.messages, {"init", "memory"})) > 0

(* ---- C2 ------------------------------------------------------------------- *)
\* C2: a call of summarize_memories with summarization disabled, or at a step
\* that is not a multiple of summarize_every_n_steps, or with at most one
\* entry that is neither init nor memory, leaves the history as it was.
TriggerLaw ==
    ( /\ call.op = "summarize"
      /\ \/ ~settings.enable_summarization
         \/ call.step % settings.summarize_every_n_steps # 0
         \/ Len(NotTagged(pre.messages, {"init", "memory"})) <= 1 )
    => history = pre

\* An enabled, on-cadence call that found exactly one eligible entry and a
\* backend ready to answer.
TriggerLawWitness ==
    /\ call.op = "summarize"
    /\ settings.enable_summarization
    /\ call.step % settings.summarize_every_n_steps = 0
    /\ Len(NotTagged(pre.messages, {"init", "memory"})) = 1
    /\ ReturnedText

(* ---- C3 ------------------------------------------------------------------- *)
\* C3: when the backend raises during an attempt that reached it, the call
\* returns normally and the history is as it was before the call.
FailureIsolation ==
    (Attempted /\ call.backend.result = "raise")
    => (~call.raised /\ history = pre)

FailureIsolationWitness ==
    /\ Attempted
    /\ call.backend.result = "raise"
    /\ call.requests # <<>>

(* ---- C4 ------------------------------------------------------------------- *)
\* C4: after a call of summarize_memories the init and memory entries of the
\* history before the call are the first init and memory entries of the
\* history after it, equal and in the same order, and the number of init
\* entries is the same as before.
RetainedPreserved ==
    call.op = "summarize" =>
        /\ Len(Tagged(history.messages, {"init", "memory"}))
              >= Len(Tagged(pre.messages, {"init", "memory"}))
        /\ SubSeq(Tagged(history.messages, {"init", "memory"}),
                  1, Len(Tagged(pre.messages, {"init", "memory"})))
              = Tagged(pre.messages, {"init", "memory"})
        /\ Len(Tagged(history.messages, {"init"})) = Len(Tagged(pre.messages, {"init"}))

\* A rewrite of a history that held an earlier summary.
RetainedPreservedWitness ==
    /\ call.outcome = "rewritten"
    /\ Len(Tagged(pre.messages, {"memory"})) >= 1
    /\ Len(Tagged(pre.messages, {"init"})) >= 1

(* ---- C5 ------------------------------------------------------------------- *)
\* C5: a call that compacts adds exactly one entry, tagged memory, to the
\* retained ones, however many entries it replaces; a call that does not
\* compact leaves the entries as they were.
SingleSummary ==
    call.op = "summarize" =>
        IF call.outcome = "rewritten"
        THEN /\ Len(history.messages) = Len(Tagged(pre.messages, {"init", "memory"})) + 1
             /\ Len(Tagged(history.messages, {"memory"}))
                   = Len(Tagged(pre.messages, {"memory"})) + 1
             /\ history.messages[Len(history.messages)].metadata.message_type = "memory"
        ELSE history.messages = pre.messages

\* A rewrite that replaced three entries by one.
SingleSummaryWitness ==
    /\ call.outcome = "rewritten"
    /\ Len(NotTagged(pre.messages, {"init", "memory"})) >= 3

(* ---- C6 ------------------------------------------------------------------- *)
\* C6: with summarization enabled, for a history of one init entry followed
\* by two or more step entries, a call at a multiple of
\* summarize_every_n_steps whose backend returns a non-empty text S leaves
\* messages = [the init entry, a memory entry of count_tokens(S) tokens] and
\* current_tokens = tokens(init) + count_tokens(S).
OneInitThenSteps(msgs) ==
    /\ Len(msgs) >= 3
    /\ msgs[1].metadata.message_type = "init"
    /\ \A i \in 2..Len(msgs) : msgs[i].metadata.message_type = "step"

ScenarioA ==
    ( /\ call.op = "summarize"
      /\ settings.enable_summarization
      /\ call.step % settings.summarize_every_n_steps = 0
      /\ OneInitThenSteps(pre.messages)
      /\ ReturnedText )
    => /\ Len(history.messages) = 2
       /\ history.messages[1] = pre.messages[1]
       /\ history.messages[2].metadata
             = [tokens |-> Len(call.backend.content.val), message_type |-> "memory"]
       /\ history.messages[2].message.content = call.backend.content.val
       /\ history.current_tokens
             = pre.messages[1].metadata.tokens + Len(call.backend.content.val)

\* Scenario A itself: init followed by three steps, backend returns "SUMMARY".
ScenarioAWitness ==
    /\ call.op = "summarize"
    /\ settings.enable_summarization
    /\ call.step % settings.summarize_every_n_steps = 0
    /\ call.step > 0
    /\ OneInitThenSteps(pre.messages)
    /\ Len(pre.messages) = 4
    /\ ReturnedText
    /\ call.backend.content.val = "SUMMARY"

(* ---- C7 ------------------------------------------------------------------- *)
\* C7: summarize_memories(0) leaves the history unchanged and does not
\* invoke the backend, whatever the history and the settings.
NeverAtStepZero ==
    (call.op = "summarize" /\ call.step = 0)
    => (history = pre /\ call.requests = <<>>)

(* ---- C8 ------------------------------------------------------------------- *)
\* C8: when the backend returns a response whose content is empty or is not
\* a text (None, a list), the compaction is abandoned: the history is as it
\* was before the call and no exception reaches the caller.
EmptyOrInvalidIsFailure ==
    ( /\ call.op = "summarize"
      /\ call.backend.result = "response"
      /\ (call.backend.content.kind # "str" \/ call.backend.content.val = "") )
    => (history = pre /\ ~call.raised)

(* ---- C9 ------------------------------------------------------------------- *)
\* C9: one call of summarize_memories sends at most one request to the
\* backend, also when the backend fails, and none when the call is disabled,
\* off cadence or finds at most one eligible entry.
NoRetry ==
    call.op = "summarize" =>
        /\ Len(call.requests) <= 1
        /\ ( \/ ~settings.enable_summarization
             \/ call.step % settings.summarize_every_n_steps # 0
             \/ Len(NotTagged(pre.messages, {"init", "memory"})) <= 1 )
           => Len(call.requests) = 0

\* An attempt whose backend failed after exactly one request.
NoRetryWitness ==
    /\ Attempted
    /\ call.backend.result \in {"raise", "no_content"}
    /\ Len(call.requests) = 1
    /\ history = pre

(* ---- C10 ------------------------------------------------------------------ *)
\* C10: after a rewrite the messages are the init and memory entries of the
\* history before the call, in their order, followed by the new summary
\* entry as the last element, and no step entry is left.
ShapeAfterCompaction ==
    call.outcome = "rewritten" =>
        /\ SubSeq(history.messages, 1, Len(history.messages) - 1)
              = Tagged(pre.messages, {"init", "memory"})
        /\ history.messages[Len(history.messages)].metadata.message_type = "memory"
        /\ history.messages[Len(history.messages)].message
              = HumanMessage(PyStr(call.backend.content))
        /\ Tagged(history.messages, {"step"}) = <<>>

\* A rewrite of a history where a retained memory entry sat between the init
\* entry and the steps.
ShapeAfterCompactionWitness ==
    /\ call.outcome = "rewritten"
    /\ Len(pre.messages) >= 4
    /\ pre.messages[2].metadata.message_type = "memory"
    /\ pre.messages[3].metadata.message_type = "step"

(* ---- C14 ------------------------------------------------------------------ *)
\* C14: the directive of every request names the window of actions as
\* starting at current_step - summarize_every_n_steps and ending at
\* current_step.
WindowBounds ==
    (call.op = "summarize" /\ call.requests # <<>>) =>
        /\ call.requests[1][1].first_action
              = call.step - settings.summarize_every_n_steps
        /\ call.requests[1][1].last_action = call.step

(* ---- C15 ------------------------------------------------------------------ *)
\* C15: an attempt that reaches the backend sends exactly the instruction,
\* then the messages of all entries that are neither init nor memory, in
\* history order, then the closing request; nothing else.
RequestShape ==
    Attempted =>
        /\ Len(call.requests) = 1
        /\ Len(call.requests[1])
              = Len(NotTagged(pre.messages, {"init", "memory"})) + 2
        /\ call.requests[1][1].role = "system"
        /\ call.requests[1][1].content = "directive"
        /\ \A i \in 1..Len(NotTagged(pre.messages, {"init", "memory"})) :
              call.requests[1][i + 1]
                 = NotTagged(pre.messages, {"init", "memory"})[i].message
        /\ call.requests[1][Len(call.requests[1])]
              = [role |-> "human",
                 content |-> "Generate a summary of the above browser agent execution history."]

\* An attempt on a history that holds init, memory and step entries, with
\* two different step messages.
RequestShapeWitness ==
    /\ Attempted
    /\ Len(Tagged(pre.messages, {"memory"})) >= 1
    /\ Len(call.requests) = 1
    /\ Len(call.requests[1]) = 4
    /\ call.requests[1][2] # call.requests[1][3]

(* ---- C17 ------------------------------------------------------------------ *)
\* C17 as stated: every rewrite leaves current_tokens strictly smaller than
\* before the call.
AlwaysReduces ==
    call.outcome = "rewritten" => history.current_tokens < pre.current_tokens

\* C17 amended: a rewrite changes current_tokens by the tokens of the summary
\* entry minus the tokens of the replaced entries, so the counter is
\* strictly smaller exactly when the summary costs less than what it replaced.
ReducesWhenSummaryCheaper ==
    call.outcome = "rewritten" =>
        /\ history.current_tokens - pre.current_tokens
              = history.messages[Len(history.messages)].metadata.tokens
                  - SumTokens(NotTagged(pre.messages, {"init", "memory"}))
        /\ (history.current_tokens < pre.current_tokens)
              <=> (history.messages[Len(history.messages)].metadata.tokens
                     < SumTokens(NotTagged(pre.messages, {"init", "memory"})))

\* A rewrite after which current_tokens is larger than before.
TokensGrowWitness ==
    /\ call.outcome = "rewritten"
    /\ history.current_tokens > pre.current_tokens

(* ---- C12 ------------------------------------------------------------------ *)
\* s is an initial segment of t.
IsPrefix(s, t) == Len(s) <= Len(t) /\ SubSeq(t, 1, Len(s)) = s

\* C12 as stated: a memory entry made by an earlier compaction is later
\* re-summarized: a call of summarize_memories comes after which a memory
\* entry that was in the history is no longer in it.
MemoryResummarized ==
    <>( /\ call.op = "summarize"
        /\ ~IsPrefix(Tagged(pre.messages, {"memory"}),
                     Tagged(history.messages, {"memory"})) )

\* C12 amended: a memory entry never becomes eligible: after every call and
\* every append the memory entries the history held before are still in it,
\* unchanged and in their order.
MemoryNeverReplaced ==
    call.op # "none" =>
        IsPrefix(Tagged(pre.messages, {"memory"}), Tagged(history.messages, {"memory"}))

\* A second compaction that kept the summary of the first one and added a
\* different one after it.
MemoryKeptWitness ==
    /\ call.outcome = "rewritten"
    /\ Len(Tagged(history.messages, {"memory"})) = 2
    /\ Tagged(history.messages, {"memory"})[1] = Tagged(pre.messages, {"memory"})[1]
    /\ Tagged(history.messages, {"memory"})[1] # Tagged(history.messages, {"memory"})[2]

(* ---- C13 ------------------------------------------------------------------ *)
\* A backend failure: the call raised, or returned something that is not a
\* non-empty text.
BackendFailed ==
    \/ call.backend.result # "response"
    \/ call.backend.content.kind # "str"
    \/ call.backend.content.val = ""

\* C13: step entries leave the history only by being summarized. After an
\* attempt whose backend call failed the eligible entries are the same as
\* before it; an append keeps them and adds one after them; a call that does
\* not reach the backend keeps them; and an attempt whose backend call
\* succeeds sends all of them (the failed window and the steps added since)
\* to the backend and replaces them by a single summary entry.
NaturalRetry ==
    /\ (Attempted /\ BackendFailed) =>
          /\ NotTagged(history.messages, {"init", "memory"})
                = NotTagged(pre.messages, {"init", "memory"})
          /\ Len(call.requests) = 1
    /\ call.op = "add" =>
          /\ IsPrefix(NotTagged(pre.messages, {"init", "memory"}),
                      NotTagged(history.messages, {"init", "memory"}))
          /\ Len(NotTagged(history.messages, {"init", "memory"}))
                = Len(NotTagged(pre.messages, {"init", "memory"})) + 1
    /\ (call.op = "summarize" /\ ~Attempted) =>
          NotTagged(history.messages, {"init", "memory"})
             = NotTagged(pre.messages, {"init", "memory"})
    /\ (Attempted /\ ~BackendFailed) =>
          /\ Len(call.requests) = 1
          /\ SubSeq(call.requests[1], 2, Len(call.requests[1]) - 1)
                = [i \in 1..Len(NotTagged(pre.messages, {"init", "memory"})) |->
                      NotTagged(pre.messages, {"init", "memory"})[i].message]
          /\ NotTagged(history.messages, {"init", "memory"}) = <<>>
          /\ Len(history.messages) = Len(Tagged(pre.messages, {"init", "memory"})) + 1

(* ---- C19 ------------------------------------------------------------------ *)
\* C19: a rewrite leaves as many entries as were retained plus one, at least
\* one fewer than before; no call and no append lowers the number of memory
\* entries, which is the number the history started with (none) plus the
\* number of rewrites so far.
StrictlyShorter ==
    /\ call.outcome = "rewritten" =>
          /\ Len(history.messages)
                = Len(Tagged(pre.messages, {"init", "memory"})) + 1
          /\ Len(history.messages) <= Len(pre.messages) - 1
    /\ Len(Tagged(history.messages, {"memory"}))
          >= Len(Tagged(pre.messages, {"memory"}))
    /\ Len(Tagged(history.messages, {"memory"})) = run.compactions

\* A second rewrite, which replaced exactly two entries.
StrictlyShorterWitness ==
    /\ call.outcome = "rewritten"
    /\ run.compactions = 2
    /\ Len(history.messages) = Len(pre.messages) - 1

(* ---- C11 ------------------------------------------------------------------ *)
\* C11: when a call of summarize_memories has returned, normally or by an
\* exception, the history is either what it was before the call (with what
\* another writer appended meanwhile), or fully rewritten: the retained
\* entries followed by one memory entry, and the counter moved by the tokens
\* of that entry minus the tokens of the replaced ones. Never only one of
\* the two.
AllOrNothing ==
    (pc = "idle" /\ call.op = "summarize") =>
        \/ /\ history.messages = pre.messages \o call.interleaved
           /\ history.current_tokens
                 = pre.current_tokens + SumTokens(call.interleaved)
        \/ /\ Len(history.messages) = Len(Tagged(pre.messages, {"init", "memory"})) + 1
           /\ SubSeq(history.messages, 1, Len(history.messages) - 1)
                 = Tagged(pre.messages, {"init", "memory"})
           /\ history.messages[Len(history.messages)].metadata.message_type = "memory"
           /\ history.current_tokens
                 = ((pre.current_tokens + SumTokens(call.interleaved))
                      - SumTokens(NotTagged(pre.messages, {"init", "memory"})))
                   + history.messages[Len(history.messages)].metadata.tokens

\* A call left by the exception of the token counting, after the backend
\* had returned a summary.
AllOrNothingWitness ==
    /\ pc = "idle"
    /\ call.op = "summarize"
    /\ call.raised
    /\ call.backend.result = "response"
    /\ history = pre

(* ---- C16 ------------------------------------------------------------------ *)
\* C16: a call that is about to rewrite (line 99) while current_tokens
\* differs from the sum of the tokens of the entries gives up: it returns
\* and the history stays as it is.
AccountingViolationAborts ==
    [][ (pc = "assign_messages" /\ history.current_tokens # SumTokens(history.messages))
          => (pc' = "idle" /\ history' = history) ]_vars

(* ---- C18 ------------------------------------------------------------------ *)
\* C18: between calls current_tokens exceeds the sum of the tokens of the
\* entries by exactly the tokens of the entries that another writer appended
\* during a backend call and that the rewrite then dropped: a rewrite after
\* such an append holds none of the appended entries but counts their
\* tokens; and as long as no append has interleaved with an attempt the two
\* are equal.
ExclusiveAccess ==
    pc = "idle" =>
        /\ history.current_tokens = SumTokens(history.messages) + run.lost_tokens
        /\ run.interleaved = 0 => history.current_tokens = SumTokens(history.messages)
        /\ (call.outcome = "rewritten" /\ call.interleaved # <<>>) =>
              /\ Len(history.messages) = Len(Tagged(pre.messages, {"init", "memory"})) + 1
              /\ Tagged(history.messages, {"step"}) = <<>>
              /\ history.current_tokens - SumTokens(history.messages)
                    >= SumTokens(call.interleaved)

\* The state the claim says is reachable: a rewrite has dropped an entry
\* appended during its backend call and the counter no longer equals the sum.
ExclusiveAccessWitness ==
    /\ pc = "idle"
    /\ call.outcome = "rewritten"
    /\ call.interleaved # <<>>
    /\ history.current_tokens # SumTokens(history.messages)

====
